---- MODULE Spec2Model ----
(***************************************************************************)
(* Model of SCTE35_Parser.parse (src/SCTE35Decoder.py): a bit cursor over  *)
(* a byte buffer, the section header, the splice-command dispatcher, the   *)
(* splice-insert / time-signal parsers and the splice-descriptor loop.     *)
(*                                                                         *)
(* The cursor only moves forward and every bit is read at most once, so    *)
(* the buffer is represented by its length (buflen bytes) and the value of *)
(* each field is drawn when the field is read: choosing the bits of a      *)
(* field at the read is the same as choosing them before the decode.       *)
(* One action models one statement (or one condition) of the source; pc    *)
(* names the statement that runs next.                                     *)
(***************************************************************************)
EXTENDS Integers, Sequences, FiniteSets, TLC

VARIABLES
  buflen,     \* len(input_bytes)
  table_id,   \* the local table_id of parse
  pos,        \* input_bitarray.pos, in bits
  pc,         \* the statement that runs next; "done" when parse has ended
  err,        \* the exception that ended parse, NoError if none
  ret,        \* the value parse returned, None while it has not returned
  section,    \* splice_info_section: attribute name -> value
  cmd,        \* ssi / sts: the splice command under construction
  st,         \* splice_time of __parse_splice_time
  caller,     \* the call site __parse_splice_time returns to
  bd,         \* break_duration of __parse_break_duration
  comp,       \* component under construction (either component loop)
  i,          \* index of either component loop
  length,     \* remaining-byte counter of __parse_splice_descriptors
  results,    \* results of __parse_splice_descriptors
  desc,       \* splice_desc: the descriptor under construction
  hdr,        \* splice_descriptor_tag, descriptor_length, identifier
  loop_pos0,  \* history: pos when __parse_splice_descriptors was entered
  iters,      \* history: completed iterations of the descriptor loop
  mark        \* history: pos and length before the component block of a descriptor

vars == <<buflen, table_id, pos, pc, err, ret, section, cmd, st, caller, bd, comp, i,
          length, results, desc, hdr, loop_pos0, iters, mark>>

\* what every statement of parse outside the sub-parsers leaves alone
inputVars == <<buflen, table_id>>
insertVars == <<cmd, st, caller, bd, comp, i>>
loopVars == <<length, results, desc, hdr, loop_pos0, iters, mark>>

----------------------------------------------------------------------------
\* Bounds of the input space

MaxBufLen == 44
MaxUpidLen == 1

BufLens == 0..MaxBufLen
TableIds == {252, 0}
CommandTypes == {5, 6, 0, 255}
ComponentCounts == {0, 1, 2, 255}
SegComponentCounts == {0, 1, 255}
LoopLengths == {0, 5, 11, 17, 22, 23, 65535}
DescriptorTags == {0, 1, 2, 3, 4, 255}
UpidLengths == 0..MaxUpidLen
SegmentationTypeIds == {52, 54, 16}
EventIds == {1, 2147483647}
Opaque == {0}
OpaqueFlag == {TRUE}

----------------------------------------------------------------------------
\* Python values

\* None, and the values of the attributes that a constructor first sets to
\* None: an int or a bool there is kept with its type, as Python keeps it
None == [type |-> "NoneType"]
PyInt(n) == [type |-> "int", val |-> n]
PyBool(b) == [type |-> "bool", val |-> b]
PyList(items) == [type |-> "list", items |-> items]
Ints(S) == {PyInt(n) : n \in S}
Bools(S) == {PyBool(b) : b \in S}
NoError == [cls |-> "none", msg |-> "none"]

\* bitstring.ReadError: a read of more bits than remain
ReadError == [cls |-> "bitstring.ReadError", msg |-> "Reading off the end of the data"]
\* ValueError of the pos setter: a seek past the end
SeekError == [cls |-> "ValueError", msg |-> "Cannot seek past the end of the data"]
\* component = {} followed by component.component_tag = ...
AttributeError == [cls |-> "AttributeError", msg |-> "'dict' object has no attribute 'component_tag'"]

SCTE35_SpliceInfoSectionException(m) == [cls |-> "SCTE35_SpliceInfoSectionException", msg |-> m]

\* obj.k = v
Put(obj, k, v) == [x \in (DOMAIN obj) \cup {k} |-> IF x = k THEN v ELSE obj[x]]
Has(obj, k) == k \in DOMAIN obj

SCTE35_SpliceInfoSection == [type |-> "SCTE35_SpliceInfoSection"]
Splice_Time == [type |-> "Splice_Time", time_specified_flag |-> None, pts_time |-> None]
Component(tag) == [type |-> "Component", tag |-> tag, splice_time |-> None]
BreakDuration == [type |-> "BreakDuration", auto_return |-> None, duration |-> None]
SCTE35_SpliceInsert(splice_id) ==
  [type |-> "SCTE35_SpliceInsert", splice_id |-> splice_id, components |-> PyList(<<>>)]
SCTE35_TimeSignal == [type |-> "SCTE35_TimeSignal", splice_time |-> None]
SCTE35_SegmentationDescriptor ==
  [type |-> "SCTE35_SegmentationDescriptor",
   descriptor_length |-> None, splice_descriptor_tag |-> None, identifier |-> None,
   segmentation_event_id |-> None, segmentation_event_cancel_indicator |-> None,
   program_segmentation_flag |-> None, segmentation_duration_flag |-> None,
   delivery_not_restricted_flag |-> None, web_delivery_allowed_flag |-> None,
   no_regional_blackout_flag |-> None, archive_allowed_flag |-> None,
   device_restrictions |-> None, component_count |-> None, components |-> None,
   segmentation_duration |-> None, segmentation_upid_type |-> None,
   segmentation_upid_length |-> None, segmentation_upid |-> None,
   segmentation_type_id |-> None, segment_num |-> None, segments_expected |-> None,
   sub_segment_num |-> None, sub_segments_expected |-> None]

----------------------------------------------------------------------------
\* The bit cursor (bitstring.BitString)

BitLen == 8 * buflen

\* a read that does not look at what remains
CanRead_unchecked(n) == TRUE
\* read(fmt) of n bits succeeds iff n bits remain; pos is unchanged otherwise
CanRead(n) == n <= BitLen - pos
\* pos += n succeeds iff the new position is not past the end
CanSeek(n) == pos + n <= BitLen

Advance(n, next) == pos' = pos + n /\ pc' = next /\ err' = err /\ ret' = ret
Raise(e) == pos' = pos /\ pc' = "done" /\ err' = e /\ ret' = ret
Goto(next) == pos' = pos /\ pc' = next /\ err' = err /\ ret' = ret

\* section.<field> = read(n bits), then the statement at next
ReadSection(here, field, n, values, next) ==
  /\ pc = here
  /\ IF CanRead(n)
       THEN /\ Advance(n, next)
            /\ \E v \in values : section' = Put(section, field, v)
       ELSE /\ Raise(ReadError)
            /\ UNCHANGED section
  /\ UNCHANGED <<inputVars, insertVars, loopVars>>

\* pos += n outside the descriptor loop
SkipBits(here, n, next) ==
  /\ pc = here
  /\ IF CanSeek(n) THEN Advance(n, next) ELSE Raise(SeekError)
  /\ UNCHANGED <<inputVars, section, insertVars, loopVars>>

----------------------------------------------------------------------------
Init ==
  /\ buflen \in BufLens
  /\ table_id = 0
  /\ pos = 0
  /\ pc = "table_id"
  /\ err = NoError
  /\ ret = None
  /\ section = None
  /\ cmd = None
  /\ st = None
  /\ caller = "none"
  /\ bd = None
  /\ comp = None
  /\ i = 0
  /\ length = 0
  /\ results = <<>>
  /\ desc = None
  /\ hdr = None
  /\ loop_pos0 = 0
  /\ iters = 0
  /\ mark = [pos |-> 0, length |-> 0, count |-> 0]

----------------------------------------------------------------------------
\* parse: the section header (lines 134-148)

\* table_id = input_bitarray.read("uint:8"): table_id is a local of parse
read_table_id ==
  /\ pc = "table_id"
  /\ IF CanRead(8)
       THEN /\ Advance(8, "new_section")
            /\ table_id' \in TableIds
       ELSE /\ Raise(ReadError)
            /\ UNCHANGED table_id
  /\ UNCHANGED <<buflen, section, insertVars, loopVars>>

\* "if table_id != 0xfc" with the comparison turned around
InvalidTableId_greater(t) == t > 252
\* if table_id != 0xfc
InvalidTableId(t) == t # 252

\* SCTE35_SpliceInfoSection.__init__: checks table_id and stores nothing
new_section ==
  /\ pc = "new_section"
  /\ IF InvalidTableId(table_id)
       THEN /\ Raise(SCTE35_SpliceInfoSectionException("valid. Should be 0xfc"))
            /\ UNCHANGED section
       ELSE /\ Goto("section_syntax_indicator")
            /\ section' = SCTE35_SpliceInfoSection
  /\ UNCHANGED <<inputVars, insertVars, loopVars>>

read_section_syntax_indicator ==
  ReadSection("section_syntax_indicator", "section_syntax_indicator", 1, OpaqueFlag, "private")
read_private == ReadSection("private", "private", 1, OpaqueFlag, "reserved2")
skip_reserved2 == SkipBits("reserved2", 2, "section_length")
read_section_length == ReadSection("section_length", "section_length", 12, Opaque, "protocol_version")
read_protocol_version ==
  ReadSection("protocol_version", "protocol_version", 8, Opaque, "encrypted_packet")
read_encrypted_packet ==
  ReadSection("encrypted_packet", "encrypted_packet", 1, OpaqueFlag, "encryption_algorithm")
read_encryption_algorithm ==
  ReadSection("encryption_algorithm", "encryption_algorithm", 6, Opaque, "pts_adjustment")
\* pts_adjustment read as "uint:32"
read_pts_adjustment_32 == ReadSection("pts_adjustment", "pts_adjustment", 32, Opaque, "cw_index")
read_pts_adjustment == ReadSection("pts_adjustment", "pts_adjustment", 33, Opaque, "cw_index")
read_cw_index == ReadSection("cw_index", "cw_index", 8, Opaque, "tier")
read_tier == ReadSection("tier", "tier", 12, Opaque, "splice_command_length")
read_splice_command_length ==
  ReadSection("splice_command_length", "splice_command_length", 12, Opaque, "splice_command_type")

\* parse: the command dispatcher (lines 150-158)
read_splice_command_type ==
  ReadSection("splice_command_type", "splice_command_type", 8, CommandTypes, "dispatch")

dispatch ==
  /\ pc = "dispatch"
  /\ IF section.splice_command_type = 5 THEN Goto("si_splice_event_id")
     ELSE IF section.splice_command_type = 6 THEN Goto("ts_new")
     ELSE Raise(SCTE35_SpliceInfoSectionException("splice_command_type: not yet supported"))
  /\ UNCHANGED <<inputVars, section, insertVars, loopVars>>

----------------------------------------------------------------------------
\* __parse_splice_time (lines 170-181), called from three places

\* splice_time = SCTE35_SpliceInsert.Splice_Time()
Call_parse_splice_time(site) == st' = Splice_Time /\ caller' = site

st_time_specified_flag ==
  /\ pc = "st_time_specified_flag"
  /\ IF CanRead(1)
       THEN \E v \in BOOLEAN :
              /\ st' = Put(st, "time_specified_flag", PyBool(v))
              /\ Advance(1, IF v THEN "st_skip6" ELSE "st_skip7")
       ELSE /\ Raise(ReadError)
            /\ UNCHANGED st
  /\ UNCHANGED <<inputVars, section, cmd, caller, bd, comp, i, loopVars>>

st_skip6 == SkipBits("st_skip6", 6, "st_pts_time")
st_skip7 == SkipBits("st_skip7", 7, "st_return")

st_pts_time ==
  /\ pc = "st_pts_time"
  /\ IF CanRead(33)
       THEN /\ Advance(33, "st_return")
            /\ \E v \in Opaque : st' = Put(st, "pts_time", PyInt(v))
       ELSE /\ Raise(ReadError)
            /\ UNCHANGED st
  /\ UNCHANGED <<inputVars, section, cmd, caller, bd, comp, i, loopVars>>

\* return splice_time, and the assignment at the call site
st_return ==
  /\ pc = "st_return"
  /\ IF caller = "time_signal"
       THEN /\ cmd' = Put(cmd, "splice_time", st)
            /\ comp' = comp
            /\ Goto("ts_return")
       ELSE IF caller = "insert"
       THEN /\ cmd' = Put(cmd, "splice_time", st)
            /\ comp' = comp
            /\ Goto("si_component_check")
       ELSE /\ comp' = Put(comp, "splice_time", st)
            /\ cmd' = cmd
            /\ Goto("si_component_append")
  /\ UNCHANGED <<inputVars, section, st, caller, bd, i, loopVars>>

----------------------------------------------------------------------------
\* __parse_time_signal (lines 190-193)

ts_new ==
  /\ pc = "ts_new"
  /\ cmd' = SCTE35_TimeSignal
  /\ Call_parse_splice_time("time_signal")
  /\ Goto("st_time_specified_flag")
  /\ UNCHANGED <<inputVars, section, bd, comp, i, loopVars>>

\* return sts; splice_info_section.splice_command = ...
ts_return ==
  /\ pc = "ts_return"
  /\ section' = Put(section, "splice_command", cmd)
  /\ Goto("splice_descriptor_loop_length")
  /\ UNCHANGED <<inputVars, insertVars, loopVars>>

----------------------------------------------------------------------------
\* __parse_break_duration (lines 183-188)

bd_auto_return ==
  /\ pc = "bd_auto_return"
  /\ IF CanRead(1)
       THEN /\ Advance(1, "bd_skip6")
            /\ \E v \in OpaqueFlag : bd' = Put(BreakDuration, "auto_return", PyBool(v))
       ELSE /\ Raise(ReadError)
            /\ UNCHANGED bd
  /\ UNCHANGED <<inputVars, section, cmd, st, caller, comp, i, loopVars>>

bd_skip6 == SkipBits("bd_skip6", 6, "bd_duration")

\* the read of duration, return break_duration, ssi.break_duration = ...
bd_duration ==
  /\ pc = "bd_duration"
  /\ IF CanRead(33)
       THEN /\ Advance(33, "si_unique_program_id")
            /\ \E v \in Opaque :
                 /\ bd' = Put(bd, "duration", PyInt(v))
                 /\ cmd' = Put(cmd, "break_duration", bd')
       ELSE /\ Raise(ReadError)
            /\ UNCHANGED <<bd, cmd>>
  /\ UNCHANGED <<inputVars, section, st, caller, comp, i, loopVars>>

----------------------------------------------------------------------------
\* __parse_splice_insert (lines 195-229)

\* ssi.<field> = read(n bits), then the statement at next
ReadInsert(here, field, n, values, next) ==
  /\ pc = here
  /\ IF CanRead(n)
       THEN /\ Advance(n, next)
            /\ \E v \in values : cmd' = Put(cmd, field, v)
       ELSE /\ Raise(ReadError)
            /\ UNCHANGED cmd
  /\ UNCHANGED <<inputVars, section, st, caller, bd, comp, i, loopVars>>

\* splice_event_id = read("uint:32"); ssi = SCTE35_SpliceInsert(splice_event_id)
si_splice_event_id ==
  /\ pc = "si_splice_event_id"
  /\ IF CanRead(32)
       THEN /\ Advance(32, "si_splice_event_cancel_indicator")
            /\ \E v \in EventIds : cmd' = SCTE35_SpliceInsert(v)
       ELSE /\ Raise(ReadError)
            /\ UNCHANGED cmd
  /\ UNCHANGED <<inputVars, section, st, caller, bd, comp, i, loopVars>>

si_splice_event_cancel_indicator ==
  ReadInsert("si_splice_event_cancel_indicator", "splice_event_cancel_indicator", 1,
             BOOLEAN, "si_skip7")
si_skip7 == SkipBits("si_skip7", 7, "si_cancel_check")

\* the value __parse_splice_insert returns when the body of
\* "if not ssi.splice_event_cancel_indicator" is skipped: "return ssi" is the
\* last statement of that body, so the function falls off its end
CancelledInsertResult(ssi) == None

\* if not ssi.splice_event_cancel_indicator: ... ; otherwise the function ends
\* and parse assigns its result to splice_info_section.splice_command
si_cancel_check ==
  /\ pc = "si_cancel_check"
  /\ IF ~cmd.splice_event_cancel_indicator
       THEN /\ Goto("si_out_of_network_indicator")
            /\ UNCHANGED section
       ELSE /\ Goto("splice_descriptor_loop_length")
            /\ section' = Put(section, "splice_command", CancelledInsertResult(cmd))
  /\ UNCHANGED <<inputVars, insertVars, loopVars>>

si_out_of_network_indicator ==
  ReadInsert("si_out_of_network_indicator", "out_of_network_indicator", 1, OpaqueFlag,
             "si_program_splice_flag")
si_program_splice_flag ==
  ReadInsert("si_program_splice_flag", "program_splice_flag", 1, BOOLEAN, "si_duration_flag")
si_duration_flag ==
  ReadInsert("si_duration_flag", "duration_flag", 1, BOOLEAN, "si_splice_immediate_flag")
si_splice_immediate_flag ==
  ReadInsert("si_splice_immediate_flag", "splice_immediate_flag", 1, BOOLEAN, "si_skip4")
si_skip4 == SkipBits("si_skip4", 4, "si_splice_time_check")

\* if ssi.program_splice_flag and not ssi.splice_immediate_flag
si_splice_time_check ==
  /\ pc = "si_splice_time_check"
  /\ IF cmd.program_splice_flag /\ ~cmd.splice_immediate_flag
       THEN /\ Call_parse_splice_time("insert")
            /\ Goto("st_time_specified_flag")
       ELSE /\ Goto("si_component_check")
            /\ UNCHANGED <<st, caller>>
  /\ UNCHANGED <<inputVars, section, cmd, bd, comp, i, loopVars>>

\* if not ssi.program_splice_flag
si_component_check ==
  /\ pc = "si_component_check"
  /\ IF ~cmd.program_splice_flag
       THEN Goto("si_component_count")
       ELSE Goto("si_duration_check")
  /\ UNCHANGED <<inputVars, section, insertVars, loopVars>>

\* ssi.component_count = read("uint:8"); the for loop starts at 0
si_component_count ==
  /\ pc = "si_component_count"
  /\ IF CanRead(8)
       THEN /\ Advance(8, "si_for")
            /\ \E v \in ComponentCounts : cmd' = Put(cmd, "component_count", v)
            /\ i' = 0
       ELSE /\ Raise(ReadError)
            /\ UNCHANGED <<cmd, i>>
  /\ UNCHANGED <<inputVars, section, st, caller, bd, comp, loopVars>>

\* for i in xrange(0, ssi.component_count)
si_for ==
  /\ pc = "si_for"
  /\ IF i < cmd.component_count
       THEN Goto("si_component_tag")
       ELSE Goto("si_duration_check")
  /\ UNCHANGED <<inputVars, section, insertVars, loopVars>>

\* component = Component(read("uint:8")); if ssi.splice_immediate_flag: ...
si_component_tag ==
  /\ pc = "si_component_tag"
  /\ IF CanRead(8)
       THEN /\ \E v \in Opaque : comp' = Component(v)
            /\ IF cmd.splice_immediate_flag
                 THEN /\ Call_parse_splice_time("component")
                      /\ Advance(8, "st_time_specified_flag")
                 ELSE /\ Advance(8, "si_component_append")
                      /\ UNCHANGED <<st, caller>>
       ELSE /\ Raise(ReadError)
            /\ UNCHANGED <<comp, st, caller>>
  /\ UNCHANGED <<inputVars, section, cmd, bd, i, loopVars>>

\* ssi.components.append(component), and the next i
si_component_append ==
  /\ pc = "si_component_append"
  /\ cmd' = Put(cmd, "components", PyList(Append(cmd.components.items, comp)))
  /\ i' = i + 1
  /\ Goto("si_for")
  /\ UNCHANGED <<inputVars, section, st, caller, bd, comp, loopVars>>

\* if ssi.duration_flag
si_duration_check ==
  /\ pc = "si_duration_check"
  /\ IF cmd.duration_flag
       THEN Goto("bd_auto_return")
       ELSE Goto("si_unique_program_id")
  /\ UNCHANGED <<inputVars, section, insertVars, loopVars>>

si_unique_program_id ==
  ReadInsert("si_unique_program_id", "unique_program_id", 16, Opaque, "si_avail_num")
si_avail_num == ReadInsert("si_avail_num", "avail_num", 8, Opaque, "si_avails_expected")
si_avails_expected ==
  ReadInsert("si_avails_expected", "avails_expected", 8, Opaque, "si_return")

\* return ssi; splice_info_section.splice_command = ...
si_return ==
  /\ pc = "si_return"
  /\ section' = Put(section, "splice_command", cmd)
  /\ Goto("splice_descriptor_loop_length")
  /\ UNCHANGED <<inputVars, insertVars, loopVars>>

----------------------------------------------------------------------------
\* parse: the descriptor loop length and the return (lines 160-168)

read_splice_descriptor_loop_length ==
  ReadSection("splice_descriptor_loop_length", "splice_descriptor_loop_length", 16,
              LoopLengths, "descriptors_check")

\* splice_descriptors = None; if splice_descriptor_loop_length > 0: call
\* __parse_splice_descriptors(input_bitarray, splice_descriptor_loop_length)
descriptors_check ==
  /\ pc = "descriptors_check"
  /\ section' = Put(section, "splice_descriptors", None)
  /\ IF section.splice_descriptor_loop_length > 0
       THEN /\ Goto("while")
            /\ length' = section.splice_descriptor_loop_length
            /\ results' = <<>>
            /\ loop_pos0' = pos
            /\ iters' = 0
       ELSE /\ Goto("return")
            /\ UNCHANGED <<length, results, loop_pos0, iters>>
  /\ UNCHANGED <<inputVars, insertVars, desc, hdr, mark>>

\* return splice_info_section
return ==
  /\ pc = "return"
  /\ pos' = pos
  /\ pc' = "done"
  /\ err' = err
  /\ ret' = section
  /\ UNCHANGED <<inputVars, section, insertVars, loopVars>>

----------------------------------------------------------------------------
\* __parse_splice_descriptors (lines 231-311)

\* "while length != 0": a loop that runs on when the counter skips 0
LoopContinues_nonzero(len) == len # 0
\* the condition of "while length > 0"
LoopContinues(len) == len > 0

\* while length > 0: ... ; return results, assigned to splice_descriptors
while ==
  /\ pc = "while"
  /\ IF LoopContinues(length)
       THEN /\ Goto("d_splice_descriptor_tag")
            /\ UNCHANGED section
       ELSE /\ Goto("return")
            /\ section' = Put(section, "splice_descriptors", PyList(results))
  /\ UNCHANGED <<inputVars, insertVars, loopVars>>

\* The byte counts the loop subtracts from length
DescriptorHeaderBytes == 6
EventIdBytes == 5
FlagBytes == 1
ComponentCountBytes == 1
DurationBytes == 5
\* "length -= 2": the type and length bytes without the upid itself
UpidBytes_header_only(upid_length) == 2
UpidBytes(upid_length) == upid_length + 2
SegmentBytes == 3
SubSegmentBytes == 2

\* <name> = read(n bits) into the descriptor header locals; length -= dec
ReadHeader(here, field, n, values, next, dec) ==
  /\ pc = here
  /\ IF CanRead(n)
       THEN /\ Advance(n, next)
            /\ \E v \in values : hdr' = Put(hdr, field, v)
            /\ length' = length - dec
       ELSE /\ Raise(ReadError)
            /\ UNCHANGED <<hdr, length>>
  /\ UNCHANGED <<inputVars, section, insertVars, results, desc, loop_pos0, iters, mark>>

\* splice_desc.<field> = read(n bits); length -= dec
ReadDesc(here, field, n, values, next, dec) ==
  /\ pc = here
  /\ IF CanRead(n)
       THEN /\ Advance(n, next)
            /\ \E v \in values : desc' = Put(desc, field, v)
            /\ length' = length - dec
       ELSE /\ Raise(ReadError)
            /\ UNCHANGED <<desc, length>>
  /\ UNCHANGED <<inputVars, section, insertVars, results, hdr, loop_pos0, iters, mark>>

\* bitarray.pos += n; length -= dec
SkipDesc(here, n, next, dec) ==
  /\ pc = here
  /\ IF CanSeek(n)
       THEN /\ Advance(n, next)
            /\ length' = length - dec
       ELSE /\ Raise(SeekError)
            /\ UNCHANGED length
  /\ UNCHANGED <<inputVars, section, insertVars, results, desc, hdr, loop_pos0, iters, mark>>

d_splice_descriptor_tag ==
  /\ pc = "d_splice_descriptor_tag"
  /\ IF CanRead(8)
       THEN /\ Advance(8, "d_descriptor_length")
            /\ \E v \in DescriptorTags : hdr' = [splice_descriptor_tag |-> v]
       ELSE /\ Raise(ReadError)
            /\ UNCHANGED hdr
  /\ UNCHANGED <<inputVars, section, insertVars, length, results, desc, loop_pos0, iters, mark>>

d_descriptor_length ==
  ReadHeader("d_descriptor_length", "descriptor_length", 8, Opaque, "d_identifier", 0)
\* identifier = read("hex:32"); length -= 6
d_identifier ==
  ReadHeader("d_identifier", "identifier", 32, Opaque, "d_dispatch", DescriptorHeaderBytes)

\* the dispatch without its "elif splice_descriptor_tag == 0x03" branch
TagError_no_time_descriptor(tag) ==
  IF tag = 0 THEN SCTE35_SpliceInfoSectionException("avail_descriptor not yet supported")
  ELSE IF tag = 1 THEN SCTE35_SpliceInfoSectionException("DTMF_descriptor not yet supported")
  ELSE IF tag = 2 THEN NoError
  ELSE SCTE35_SpliceInfoSectionException("unknown splice_descriptor tag")

\* the exception the tag dispatch raises, NoError for a segmentation descriptor
TagError(tag) ==
  IF tag = 0 THEN SCTE35_SpliceInfoSectionException("avail_descriptor not yet supported")
  ELSE IF tag = 1 THEN SCTE35_SpliceInfoSectionException("DTMF_descriptor not yet supported")
  ELSE IF tag = 2 THEN NoError
  ELSE IF tag = 3 THEN SCTE35_SpliceInfoSectionException("time_descriptor not yet supported")
  ELSE SCTE35_SpliceInfoSectionException("unknown splice_descriptor tag")

\* if splice_descriptor_tag == 0x00: raise ... elif ... == 0x02:
\* splice_desc = SCTE35_SegmentationDescriptor()
d_dispatch ==
  /\ pc = "d_dispatch"
  /\ IF TagError(hdr.splice_descriptor_tag) = NoError
       THEN /\ Goto("seg_segmentation_event_id")
            /\ desc' = SCTE35_SegmentationDescriptor
       ELSE /\ Raise(TagError(hdr.splice_descriptor_tag))
            /\ UNCHANGED desc
  /\ UNCHANGED <<inputVars, section, insertVars, length, results, hdr, loop_pos0, iters, mark>>

seg_segmentation_event_id ==
  ReadDesc("seg_segmentation_event_id", "segmentation_event_id", 32, Ints(EventIds),
           "seg_segmentation_event_cancel_indicator", 0)
seg_segmentation_event_cancel_indicator ==
  ReadDesc("seg_segmentation_event_cancel_indicator", "segmentation_event_cancel_indicator",
           1, Bools(BOOLEAN), "seg_skip7", 0)
\* bitarray.pos += 7; length -= 5
seg_skip7 == SkipDesc("seg_skip7", 7, "seg_cancel_check", EventIdBytes)

\* if not splice_desc.segmentation_event_cancel_indicator
seg_cancel_check ==
  /\ pc = "seg_cancel_check"
  /\ IF ~desc.segmentation_event_cancel_indicator.val
       THEN Goto("seg_program_segmentation_flag")
       ELSE Goto("d_append")
  /\ UNCHANGED <<inputVars, section, insertVars, loopVars>>

seg_program_segmentation_flag ==
  ReadDesc("seg_program_segmentation_flag", "program_segmentation_flag", 1, Bools(BOOLEAN),
           "seg_segmentation_duration_flag", 0)
seg_segmentation_duration_flag ==
  ReadDesc("seg_segmentation_duration_flag", "segmentation_duration_flag", 1, Bools(BOOLEAN),
           "seg_delivery_not_restricted_flag", 0)
seg_delivery_not_restricted_flag ==
  ReadDesc("seg_delivery_not_restricted_flag", "delivery_not_restricted_flag", 1, Bools(BOOLEAN),
           "seg_delivery_check", 0)

\* if not splice_desc.delivery_not_restricted_flag
seg_delivery_check ==
  /\ pc = "seg_delivery_check"
  /\ IF ~desc.delivery_not_restricted_flag.val
       THEN Goto("seg_web_delivery_allowed_flag")
       ELSE Goto("seg_skip5")
  /\ UNCHANGED <<inputVars, section, insertVars, loopVars>>

seg_web_delivery_allowed_flag ==
  ReadDesc("seg_web_delivery_allowed_flag", "web_delivery_allowed_flag", 1, Bools(OpaqueFlag),
           "seg_no_regional_blackout_flag", 0)
seg_no_regional_blackout_flag ==
  ReadDesc("seg_no_regional_blackout_flag", "no_regional_blackout_flag", 1, Bools(OpaqueFlag),
           "seg_archive_allowed_flag", 0)
seg_archive_allowed_flag ==
  ReadDesc("seg_archive_allowed_flag", "archive_allowed_flag", 1, Bools(OpaqueFlag),
           "seg_device_restrictions", 0)
\* device_restrictions = read("bin:2"); length -= 1
seg_device_restrictions ==
  ReadDesc("seg_device_restrictions", "device_restrictions", 2, Ints(Opaque),
           "seg_component_check", FlagBytes)
\* else: bitarray.pos += 5; length -= 1
seg_skip5 == SkipDesc("seg_skip5", 5, "seg_component_check", FlagBytes)

\* if not splice_desc.program_segmentation_flag
seg_component_check ==
  /\ pc = "seg_component_check"
  /\ IF ~desc.program_segmentation_flag.val
       THEN Goto("seg_component_count")
       ELSE Goto("seg_duration_check")
  /\ UNCHANGED <<inputVars, section, insertVars, loopVars>>

\* component_count = read("uint:8"); length -= 1; components = []
seg_component_count ==
  /\ pc = "seg_component_count"
  /\ IF CanRead(8)
       THEN /\ Advance(8, "seg_for")
            /\ \E v \in SegComponentCounts :
                 /\ desc' = Put(Put(desc, "component_count", PyInt(v)), "components", PyList(<<>>))
                 /\ mark' = [pos |-> pos, length |-> length, count |-> v]
            /\ length' = length - ComponentCountBytes
            /\ i' = 0
       ELSE /\ Raise(ReadError)
            /\ UNCHANGED <<desc, length, i, mark>>
  /\ UNCHANGED <<inputVars, section, cmd, st, caller, bd, comp, results, hdr, loop_pos0, iters>>

\* for i in range(splice_desc.component_count)
seg_for ==
  /\ pc = "seg_for"
  /\ IF i < desc.component_count.val
       THEN Goto("seg_component_tag")
       ELSE Goto("seg_duration_check")
  /\ UNCHANGED <<inputVars, section, insertVars, loopVars>>

\* what "component.component_tag = <value read>" does to component = {}:
\* a dict takes no attribute, the assignment raises
SetComponentTag(component, v) == AttributeError

\* component = {}; component.component_tag = read("uint:8"): the read runs
\* first, then the assignment raises; lines 276-279 are never reached
seg_component_tag ==
  /\ pc = "seg_component_tag"
  /\ IF CanRead(8)
       THEN \E v \in Opaque :
              /\ pos' = pos + 8
              /\ pc' = "done"
              /\ err' = SetComponentTag(<<>>, v)
              /\ ret' = ret
       ELSE Raise(ReadError)
  /\ UNCHANGED <<inputVars, section, insertVars, loopVars>>

\* if splice_desc.segmentation_duration_flag
seg_duration_check ==
  /\ pc = "seg_duration_check"
  /\ IF desc.segmentation_duration_flag.val
       THEN Goto("seg_segmentation_duration")
       ELSE Goto("seg_segmentation_upid_type")
  /\ UNCHANGED <<inputVars, section, insertVars, loopVars>>

\* segmentation_duration = read("uint:40"); length -= 5
seg_segmentation_duration ==
  ReadDesc("seg_segmentation_duration", "segmentation_duration", 40, Ints(Opaque),
           "seg_segmentation_upid_type", DurationBytes)
seg_segmentation_upid_type ==
  ReadDesc("seg_segmentation_upid_type", "segmentation_upid_type", 8, Ints(Opaque),
           "seg_segmentation_upid_length", 0)
seg_segmentation_upid_length ==
  ReadDesc("seg_segmentation_upid_length", "segmentation_upid_length", 8, Ints(UpidLengths),
           "seg_segmentation_upid", 0)
\* segmentation_upid = read("hex:" + str(upid_length*8)); length -= upid_length + 2
seg_segmentation_upid ==
  ReadDesc("seg_segmentation_upid", "segmentation_upid", 8 * desc.segmentation_upid_length.val,
           Ints(Opaque), "seg_segmentation_type_id", UpidBytes(desc.segmentation_upid_length.val))
seg_segmentation_type_id ==
  ReadDesc("seg_segmentation_type_id", "segmentation_type_id", 8, Ints(SegmentationTypeIds),
           "seg_segment_num", 0)
seg_segment_num == ReadDesc("seg_segment_num", "segment_num", 8, Ints(Opaque), "seg_segments_expected", 0)
\* segments_expected = read("uint:8"); length -= 3
seg_segments_expected ==
  ReadDesc("seg_segments_expected", "segments_expected", 8, Ints(Opaque), "seg_sub_segment_check",
           SegmentBytes)

\* segmentation_type_id == 0x34 or segmentation_type_id == 0x36
HasSubSegments(type_id) == type_id = 52 \/ type_id = 54

seg_sub_segment_check ==
  /\ pc = "seg_sub_segment_check"
  /\ IF HasSubSegments(desc.segmentation_type_id.val)
       THEN Goto("seg_sub_segment_num")
       ELSE Goto("d_append")
  /\ UNCHANGED <<inputVars, section, insertVars, loopVars>>

seg_sub_segment_num ==
  ReadDesc("seg_sub_segment_num", "sub_segment_num", 8, Ints(Opaque), "seg_sub_segments_expected", 0)
\* sub_segments_expected = read("uint:8"); length -= 2
seg_sub_segments_expected ==
  ReadDesc("seg_sub_segments_expected", "sub_segments_expected", 8, Ints(Opaque), "d_append",
           SubSegmentBytes)

\* splice_desc.splice_descriptor_tag = ...; .descriptor_length = ...;
\* .identifier = ...; results.append(splice_desc)
d_append ==
  /\ pc = "d_append"
  /\ desc' = [desc EXCEPT !.splice_descriptor_tag = PyInt(hdr.splice_descriptor_tag),
                           !.descriptor_length = PyInt(hdr.descriptor_length),
                           !.identifier = PyInt(hdr.identifier)]
  /\ results' = Append(results, desc')
  /\ iters' = iters + 1
  /\ Goto("while")
  /\ UNCHANGED <<inputVars, section, insertVars, length, hdr, loop_pos0, mark>>

----------------------------------------------------------------------------
Header ==
  \/ read_table_id \/ new_section \/ read_section_syntax_indicator \/ read_private
  \/ skip_reserved2 \/ read_section_length \/ read_protocol_version
  \/ read_encrypted_packet \/ read_encryption_algorithm \/ read_pts_adjustment
  \/ read_cw_index \/ read_tier \/ read_splice_command_length

Command ==
  \/ read_splice_command_type \/ dispatch
  \/ st_time_specified_flag \/ st_skip6 \/ st_skip7 \/ st_pts_time \/ st_return
  \/ ts_new \/ ts_return
  \/ bd_auto_return \/ bd_skip6 \/ bd_duration
  \/ si_splice_event_id \/ si_splice_event_cancel_indicator \/ si_skip7 \/ si_cancel_check
  \/ si_out_of_network_indicator \/ si_program_splice_flag \/ si_duration_flag
  \/ si_splice_immediate_flag \/ si_skip4 \/ si_splice_time_check \/ si_component_check
  \/ si_component_count \/ si_for \/ si_component_tag \/ si_component_append
  \/ si_duration_check \/ si_unique_program_id \/ si_avail_num \/ si_avails_expected
  \/ si_return

Descriptors ==
  \/ read_splice_descriptor_loop_length \/ descriptors_check \/ return \/ while
  \/ d_splice_descriptor_tag \/ d_descriptor_length \/ d_identifier \/ d_dispatch
  \/ seg_segmentation_event_id \/ seg_segmentation_event_cancel_indicator \/ seg_skip7
  \/ seg_cancel_check \/ seg_program_segmentation_flag \/ seg_segmentation_duration_flag
  \/ seg_delivery_not_restricted_flag \/ seg_delivery_check
  \/ seg_web_delivery_allowed_flag \/ seg_no_regional_blackout_flag
  \/ seg_archive_allowed_flag \/ seg_device_restrictions \/ seg_skip5
  \/ seg_component_check \/ seg_component_count \/ seg_for \/ seg_component_tag
  \/ seg_duration_check \/ seg_segmentation_duration \/ seg_segmentation_upid_type
  \/ seg_segmentation_upid_length \/ seg_segmentation_upid \/ seg_segmentation_type_id
  \/ seg_segment_num \/ seg_segments_expected \/ seg_sub_segment_check
  \/ seg_sub_segment_num \/ seg_sub_segments_expected \/ d_append

Next == Header \/ Command \/ Descriptors

Spec == Init /\ [][Next]_vars

\* parse is sequential code: a statement that can run does run
FairSpec == Spec /\ WF_vars(Next)

----------------------------------------------------------------------------
\* The outcome of a decode, in the terms of the error taxonomy

Finished == pc = "done"
Returned == Finished /\ err = NoError
L == section.splice_descriptor_loop_length

ErrorKind(e) ==
  IF e = NoError THEN "none"
  ELSE IF e.cls = "bitstring.ReadError" \/ e.cls = "ValueError" THEN "TruncatedInput"
  ELSE IF e.cls # "SCTE35_SpliceInfoSectionException" THEN "other"
  ELSE IF e.msg = "valid. Should be 0xfc" THEN "InvalidTableId"
  ELSE IF e.msg = "splice_command_type: not yet supported" THEN "UnsupportedSpliceCommandType"
  ELSE IF e.msg = "unknown splice_descriptor tag" THEN "UnknownDescriptorTag"
  ELSE "UnsupportedDescriptorTag"

\* the statement at pc is past the read of the header field named f
CommandTypeRead == Has(section, "splice_command_type")
HeaderOfDescriptorRead == Has(hdr, "identifier")

----------------------------------------------------------------------------
\* C1: every decode of a long enough buffer with table_id 0xFC, a command
\* type of 5 or 6 and a descriptor loop of segmentation descriptors that fill
\* the declared length returns a section whose table_id is 0xFC.
C1_ValidDecodeSucceeds ==
  (/\ Finished
   /\ ErrorKind(err) \in {"none", "other"}
   /\ (err = NoError /\ L > 0 => length = 0))
  => (/\ err = NoError
      /\ ret.type = "SCTE35_SpliceInfoSection"
      /\ Has(ret, "table_id")
      /\ ret.table_id = 252)

\* C2: an unsupported discriminator ends the decode with the error kind that
\* belongs to it and nothing is returned, wherever the descriptor sits.
ExpectedTagKind(tag) ==
  IF tag \in {0, 1, 3} THEN "UnsupportedDescriptorTag" ELSE "UnknownDescriptorTag"

C2_UnsupportedAborts ==
  /\ (CommandTypeRead /\ section.splice_command_type \notin {5, 6} /\ pc # "dispatch")
       => (/\ Finished
           /\ ErrorKind(err) = "UnsupportedSpliceCommandType"
           /\ ret = None)
  /\ (HeaderOfDescriptorRead /\ hdr.splice_descriptor_tag # 2 /\ pc # "d_dispatch")
       => (/\ Finished
           /\ ErrorKind(err) = ExpectedTagKind(hdr.splice_descriptor_tag)
           /\ ret = None)

C2_Witness ==
  /\ Finished
  /\ Len(results) >= 1
  /\ HeaderOfDescriptorRead
  /\ hdr.splice_descriptor_tag = 3
  /\ ErrorKind(err) = "UnsupportedDescriptorTag"

\* C3: a first byte other than 0xFC ends the decode with InvalidTableId at
\* bit 8, before any other field is read.
C3_InvalidTableId ==
  (buflen >= 1 /\ table_id # 252 /\ pc \notin {"table_id", "new_section"})
  => (/\ Finished
      /\ ErrorKind(err) = "InvalidTableId"
      /\ pos = 8
      /\ section = None
      /\ cmd = None
      /\ ret = None)

C3_Witness ==
  Finished /\ buflen > 1 /\ table_id # 252 /\ pos = 8 /\ ErrorKind(err) = "InvalidTableId"

\* C4: the cursor never passes the end of the buffer; a read or a skip moves
\* it by the width asked for, or, when that width does not fit, leaves it and
\* ends the decode with a truncated-input error and no result.
Bits1 ==
  {"section_syntax_indicator", "private", "encrypted_packet", "st_time_specified_flag",
   "bd_auto_return", "si_splice_event_cancel_indicator", "si_out_of_network_indicator",
   "si_program_splice_flag", "si_duration_flag", "si_splice_immediate_flag",
   "seg_segmentation_event_cancel_indicator", "seg_program_segmentation_flag",
   "seg_segmentation_duration_flag", "seg_delivery_not_restricted_flag",
   "seg_web_delivery_allowed_flag", "seg_no_regional_blackout_flag",
   "seg_archive_allowed_flag"}
Bits8 ==
  {"table_id", "protocol_version", "cw_index", "splice_command_type", "si_component_count",
   "si_component_tag", "si_avail_num", "si_avails_expected", "d_splice_descriptor_tag",
   "d_descriptor_length", "seg_component_count", "seg_component_tag",
   "seg_segmentation_upid_type", "seg_segmentation_upid_length", "seg_segmentation_type_id",
   "seg_segment_num", "seg_segments_expected", "seg_sub_segment_num",
   "seg_sub_segments_expected"}

RequestedWidth ==
  IF pc \in Bits1 THEN 1
  ELSE IF pc \in {"reserved2", "seg_device_restrictions"} THEN 2
  ELSE IF pc = "si_skip4" THEN 4
  ELSE IF pc = "seg_skip5" THEN 5
  ELSE IF pc \in {"encryption_algorithm", "st_skip6", "bd_skip6"} THEN 6
  ELSE IF pc \in {"st_skip7", "si_skip7", "seg_skip7"} THEN 7
  ELSE IF pc \in Bits8 THEN 8
  ELSE IF pc \in {"section_length", "tier", "splice_command_length"} THEN 12
  ELSE IF pc \in {"si_unique_program_id", "splice_descriptor_loop_length"} THEN 16
  ELSE IF pc \in {"si_splice_event_id", "d_identifier", "seg_segmentation_event_id"} THEN 32
  ELSE IF pc \in {"pts_adjustment", "st_pts_time", "bd_duration"} THEN 33
  ELSE IF pc = "seg_segmentation_duration" THEN 40
  ELSE IF pc = "seg_segmentation_upid" THEN 8 * desc.segmentation_upid_length.val
  ELSE 0

CursorStep ==
  IF pos + RequestedWidth <= BitLen
    THEN pos' = pos + RequestedWidth
    ELSE /\ pos' = pos
         /\ pc' = "done"
         /\ ErrorKind(err') = "TruncatedInput"
         /\ ret' = None

C4_CursorInBounds ==
  /\ [](pos <= BitLen)
  /\ [](ret # None => err = NoError)
  /\ [][CursorStep]_vars

C4_Witness ==
  /\ Finished
  /\ err = ReadError
  /\ pos = BitLen
  /\ Len(results) >= 1

\* C5: the descriptor loop hands back a list only with its counter at 0.
C5_LoopEndsAtZero ==
  (Has(section, "splice_descriptors") /\ section.splice_descriptors.type = "list")
  => length = 0

\* C6: at the head of every iteration of the descriptor loop and at its
\* exit, the bits consumed since the loop began are 8 * (L - length).
C6_BudgetMatchesCursor ==
  pc = "while" => pos - loop_pos0 = 8 * (L - length)

C6_Witness ==
  /\ pc = "while"
  /\ Len(results) = 1
  /\ ~results[1].segmentation_event_cancel_indicator.val
  /\ results[1].segmentation_duration_flag.val
  /\ ~results[1].delivery_not_restricted_flag.val
  /\ ~results[1].program_segmentation_flag.val
  /\ results[1].segmentation_upid_length.val >= 1
  /\ HasSubSegments(results[1].segmentation_type_id.val)

\* C7: a component-level segmentation descriptor with component count n is
\* parsed through its n records (8 + 48*n bits, 1 + 6*n bytes of budget, n
\* list entries) and the parse goes on with the fields that follow.
C7_ComponentsParsed ==
  /\ (pc = "seg_duration_check" /\ ~desc.program_segmentation_flag.val)
       => (/\ Len(desc.components.items) = desc.component_count.val
           /\ pos - mark.pos = 8 + 48 * desc.component_count.val
           /\ mark.length - length = 1 + 6 * desc.component_count.val)
  /\ (Finished /\ mark.count >= 1 /\ mark.pos + 8 + 48 * mark.count <= BitLen)
       => pos >= mark.pos + 8 + 48 * mark.count

\* C8: a cancelled splice-insert reads 40 bits and yields a SpliceInsert
\* holding its splice_event_id and the cancel indicator.
CancelledInsert ==
  /\ cmd.type = "SCTE35_SpliceInsert"
  /\ Has(cmd, "splice_event_cancel_indicator")
  /\ cmd.splice_event_cancel_indicator

C8_CancelledInsertIsCommand ==
  /\ (CancelledInsert /\ Has(section, "splice_command"))
       => (/\ section.splice_command.type = "SCTE35_SpliceInsert"
           /\ section.splice_command.splice_id = cmd.splice_id
           /\ section.splice_command.splice_event_cancel_indicator)
  /\ (CancelledInsert /\ pc = "splice_descriptor_loop_length")
       => pos = 104 + 8 + 40

\* C9: the header fields are read in the listed order with the listed
\* widths, and the cursor has advanced by the total header width when the
\* command dispatcher takes over.
HeaderFields ==
  << [at |-> "table_id", bits |-> 8],
     [at |-> "section_syntax_indicator", bits |-> 1],
     [at |-> "private", bits |-> 1],
     [at |-> "reserved2", bits |-> 2],
     [at |-> "section_length", bits |-> 12],
     [at |-> "protocol_version", bits |-> 8],
     [at |-> "encrypted_packet", bits |-> 1],
     [at |-> "encryption_algorithm", bits |-> 6],
     [at |-> "pts_adjustment", bits |-> 33],
     [at |-> "cw_index", bits |-> 8],
     [at |-> "tier", bits |-> 12],
     [at |-> "splice_command_length", bits |-> 12] >>

RECURSIVE BitsBefore(_)
BitsBefore(k) == IF k <= 1 THEN 0 ELSE BitsBefore(k - 1) + HeaderFields[k - 1].bits

HeaderInOrder ==
  \A k \in 1..Len(HeaderFields) : pc = HeaderFields[k].at => pos = BitsBefore(k)

\* the claim as written: 97 bits at the hand-over
C9_HeaderIs97Bits ==
  /\ HeaderInOrder
  /\ pc = "splice_command_type" => pos = 97

\* the claim as amended: the listed widths add up to 104 bits
C9_HeaderIs104Bits ==
  /\ HeaderInOrder
  /\ pc = "splice_command_type" => (pos = 104 /\ pos = BitsBefore(Len(HeaderFields) + 1))

C9_Witness == pc = "splice_command_type" /\ table_id = 252 /\ pos = 104

\* C10: decode terminates; every completed iteration of the descriptor loop
\* takes at least 11 bytes off the counter, so the loop runs at most
\* ceil(L / 11) iterations, and a component loop runs at most 255 times.
InDescriptorLoop == Has(section, "splice_descriptors") /\ L > 0

C10_Terminates ==
  /\ <>Finished
  /\ [](InDescriptorLoop => 11 * iters < L + 11)
  /\ [](pc = "while" => 11 * iters <= L - length)
  /\ [](i <= 255)

C10_Witness ==
  /\ Finished
  /\ InDescriptorLoop
  /\ iters = 2
  /\ L = 22
  /\ err = NoError


====
